---- MODULE Spec2Model ----
(***************************************************************************)
(* Model of useRouteQuery (src/src/index.ts): a table of reactive          *)
(* parameters kept in step with the query of the current route.            *)
(*                                                                         *)
(* Strings are sequences of one-character strings, so that Number(s) and   *)
(* String(n) are computed and not assumed to be inverse of each other.     *)
(***************************************************************************)
EXTENDS Integers, Sequences, FiniteSets, TLC

(***************************************************************************)
(* QueryValue = string | number | boolean | undefined | null.  A value is  *)
(* a record with the same fields for every type; typeof is the field t.    *)
(***************************************************************************)
MkVal(t, n, nan, b, s) == [t |-> t, n |-> n, nan |-> nan, b |-> b, s |-> s]

Num(n) == MkVal("number", n, FALSE, FALSE, <<>>)

NaN == MkVal("number", 0, TRUE, FALSE, <<>>)

Bool(b) == MkVal("boolean", 0, FALSE, b, <<>>)

Str(s) == MkVal("string", 0, FALSE, FALSE, s)

Undefined == MkVal("undefined", 0, FALSE, FALSE, <<>>)

Null == MkVal("object", 0, FALSE, FALSE, <<>>)

TypeOf(v) == v.t

(***************************************************************************)
(* The string literals the model uses.                                     *)
(***************************************************************************)
S_empty == <<>>

S_true == <<"t", "r", "u", "e">>

S_false == <<"f", "a", "l", "s", "e">>

S_NaN == <<"N", "a", "N">>

S_undefined == <<"u", "n", "d", "e", "f", "i", "n", "e", "d">>

S_null == <<"n", "u", "l", "l">>

S_abc == <<"a", "b", "c">>

S_maybe == <<"m", "a", "y", "b", "e">>

S_x == <<"x">>

Digits == <<"0", "1", "2", "3", "4", "5", "6", "7", "8", "9">>

IsDigit(c) == \E i \in 1..10 : Digits[i] = c

DigitVal(c) == (CHOOSE i \in 1..10 : Digits[i] = c) - 1

IsSpace(c) == c = " "

(***************************************************************************)
(* Number(s) of a string: white space is trimmed, the empty string is 0,   *)
(* an optionally signed run of decimal digits is its value, and anything   *)
(* else is NaN.  (Fractions, exponents, radix prefixes and Infinity are    *)
(* outside the alphabet of the model.)                                     *)
(***************************************************************************)
RECURSIVE TrimLeft(_)
TrimLeft(s) ==
    IF s # <<>> /\ IsSpace(Head(s)) THEN TrimLeft(Tail(s)) ELSE s

RECURSIVE TrimRight(_)
TrimRight(s) ==
    IF s # <<>> /\ IsSpace(s[Len(s)])
    THEN TrimRight(SubSeq(s, 1, Len(s) - 1))
    ELSE s

Trim(s) == TrimRight(TrimLeft(s))

AllDigits(s) == s # <<>> /\ \A i \in 1..Len(s) : IsDigit(s[i])

RECURSIVE DigitsValue(_, _)
DigitsValue(s, acc) ==
    IF s = <<>> THEN acc
    ELSE DigitsValue(Tail(s), 10 * acc + DigitVal(Head(s)))

StringToNumber(s) ==
    LET t == Trim(s) IN
    IF t = <<>> THEN Num(0)
    ELSE IF AllDigits(t) THEN Num(DigitsValue(t, 0))
    ELSE IF Head(t) = "-" /\ AllDigits(Tail(t)) THEN Num(0 - DigitsValue(Tail(t), 0))
    ELSE IF Head(t) = "+" /\ AllDigits(Tail(t)) THEN Num(DigitsValue(Tail(t), 0))
    ELSE NaN

(***************************************************************************)
(* String(v) of a value.                                                   *)
(***************************************************************************)
RECURSIVE NatToString(_)
NatToString(n) ==
    IF n < 10 THEN <<Digits[n + 1]>>
    ELSE NatToString(n \div 10) \o <<Digits[(n % 10) + 1]>>

NumberToString(v) ==
    IF v.nan THEN S_NaN
    ELSE IF v.n < 0 THEN <<"-">> \o NatToString(0 - v.n)
    ELSE NatToString(v.n)

StringOf(v) ==
    CASE v.t = "number" -> NumberToString(v)
      [] v.t = "boolean" -> (IF v.b THEN S_true ELSE S_false)
      [] v.t = "string" -> v.s
      [] v.t = "undefined" -> S_undefined
      [] OTHER -> S_null

IsNaN(v) == v.t = "number" /\ v.nan

IsNull(v) == v.t = "object"

IsUndefined(v) == v.t = "undefined"

(***************************************************************************)
(* LocationQueryValue | LocationQueryValue[]: an entry of route.query is   *)
(* absent (undefined), null, a string, or an array of strings and nulls.   *)
(***************************************************************************)
QAbsent == [kind |-> "absent", s |-> <<>>, arr |-> <<>>]

QNull == [kind |-> "null", s |-> <<>>, arr |-> <<>>]

QStr(s) == [kind |-> "string", s |-> s, arr |-> <<>>]

QArr(a) == [kind |-> "array", s |-> <<>>, arr |-> a]

ElemStr(s) == [kind |-> "string", s |-> s]

ElemNull == [kind |-> "null", s |-> <<>>]

(***************************************************************************)
(* The parameter table and the keys of the query.                          *)
(***************************************************************************)
Keys == <<"page", "q">>

ParamKeys == {Keys[i] : i \in 1..Len(Keys)}

OtherKeys == {"tab"}

QueryKeys == ParamKeys \cup OtherKeys

(***************************************************************************)
(* convertRouteValue                                                       *)
(***************************************************************************)
FirstOf(routeValue) ==
    IF routeValue.kind = "array"
    THEN IF routeValue.arr = <<>> THEN Undefined
         ELSE IF routeValue.arr[1].kind = "null" THEN Null
         ELSE Str(routeValue.arr[1].s)
    ELSE Str(routeValue.s)

ToNumber(v) ==
    CASE v.t = "string" -> StringToNumber(v.s)
      [] v.t = "number" -> v
      [] v.t = "boolean" -> (IF v.b THEN Num(1) ELSE Num(0))
      [] v.t = "undefined" -> NaN
      [] OTHER -> Num(0)

convertRouteValue_noNumber(routeValue, originalValue) ==
    IF routeValue.kind = "absent" \/ routeValue.kind = "null" THEN originalValue
    ELSE LET stringValue == FirstOf(routeValue) IN
         IF TypeOf(originalValue) = "boolean"
         THEN Bool(stringValue = Str(S_true))
         ELSE stringValue

convertRouteValue_truthy(routeValue, originalValue) ==
    IF routeValue.kind = "absent" \/ routeValue.kind = "null" THEN originalValue
    ELSE LET stringValue == FirstOf(routeValue) IN
         IF TypeOf(originalValue) = "number"
         THEN LET num == ToNumber(stringValue) IN
              IF IsNaN(num) THEN originalValue ELSE num
         ELSE IF TypeOf(originalValue) = "boolean"
         THEN Bool(stringValue.t = "string" /\ stringValue.s # <<>>)
         ELSE stringValue

convertRouteValue_keepNaN(routeValue, originalValue) ==
    IF routeValue.kind = "absent" \/ routeValue.kind = "null" THEN originalValue
    ELSE LET stringValue == FirstOf(routeValue) IN
         IF TypeOf(originalValue) = "number"
         THEN ToNumber(stringValue)
         ELSE IF TypeOf(originalValue) = "boolean"
         THEN Bool(stringValue = Str(S_true))
         ELSE stringValue

convertRouteValue(routeValue, originalValue) ==
    IF routeValue.kind = "absent" \/ routeValue.kind = "null" THEN originalValue
    ELSE LET stringValue == FirstOf(routeValue) IN
         IF TypeOf(originalValue) = "number"
         THEN LET num == ToNumber(stringValue) IN
              IF IsNaN(num) THEN originalValue ELSE num
         ELSE IF TypeOf(originalValue) = "boolean"
         THEN Bool(stringValue = Str(S_true))
         ELSE stringValue

(***************************************************************************)
(* initParamsFromRoute: the table after the loop over the keys, in the     *)
(* order of the table.                                                     *)
(***************************************************************************)
RECURSIVE InitLoop(_, _, _, _)
InitLoop(i, p, rq, excludeKeys) ==
    IF i > Len(Keys) THEN p
    ELSE LET key == Keys[i] IN
         IF key \in excludeKeys THEN InitLoop(i + 1, p, rq, excludeKeys)
         ELSE LET routeValue == rq[key] IN
              IF routeValue.kind # "absent" /\ routeValue.kind # "null"
              THEN InitLoop(i + 1,
                            [p EXCEPT ![key] = convertRouteValue(routeValue, p[key])],
                            rq, excludeKeys)
              ELSE InitLoop(i + 1, p, rq, excludeKeys)

initParamsFromRoute_noExclude(p, rq, excludeKeys) == InitLoop(1, p, rq, {})

initParamsFromRoute(p, rq, excludeKeys) == InitLoop(1, p, rq, excludeKeys)

(***************************************************************************)
(* updateRouteQuery: the query handed to router.replace.                   *)
(***************************************************************************)
IsEmptyValue_onlyString(value) == value = Str(S_empty)

IsEmptyValue(value) ==
    IsUndefined(value) \/ IsNull(value) \/ value = Str(S_empty)

RECURSIVE UpdateLoop(_, _, _, _, _)
UpdateLoop(i, currentQuery, p, excludeKeys, emptyValueHandle) ==
    IF i > Len(Keys) THEN currentQuery
    ELSE LET key == Keys[i]
             value == p[key]
         IN
         IF key \in excludeKeys
         THEN UpdateLoop(i + 1, currentQuery, p, excludeKeys, emptyValueHandle)
         ELSE IF IsEmptyValue(value)
         THEN IF emptyValueHandle = "remove"
              THEN UpdateLoop(i + 1, [currentQuery EXCEPT ![key] = QAbsent],
                              p, excludeKeys, emptyValueHandle)
              ELSE UpdateLoop(i + 1, [currentQuery EXCEPT ![key] = QStr(S_empty)],
                              p, excludeKeys, emptyValueHandle)
         ELSE UpdateLoop(i + 1, [currentQuery EXCEPT ![key] = QStr(StringOf(value))],
                         p, excludeKeys, emptyValueHandle)

updateRouteQuery_fresh(p, rq, excludeKeys, emptyValueHandle) ==
    UpdateLoop(1, [k \in DOMAIN rq |-> QAbsent], p, excludeKeys, emptyValueHandle)

updateRouteQuery_alwaysRemove(p, rq, excludeKeys, emptyValueHandle) ==
    UpdateLoop(1, rq, p, excludeKeys, "remove")

updateRouteQuery_alwaysKeep(p, rq, excludeKeys, emptyValueHandle) ==
    UpdateLoop(1, rq, p, excludeKeys, "keep")

updateRouteQuery(p, rq, excludeKeys, emptyValueHandle) ==
    UpdateLoop(1, rq, p, excludeKeys, emptyValueHandle)

(***************************************************************************)
(* resetParams.  resetValues is NoReset when the argument is omitted, and  *)
(* otherwise a function from the keys it supplies to their values.         *)
(***************************************************************************)
NoReset == [given |-> FALSE, keys |-> {}, vals |-> [k \in ParamKeys |-> Undefined]]

ResetWith(keys, vals) == [given |-> TRUE, keys |-> keys, vals |-> vals]

TypeDefault_alwaysString(currentValue) == Str(S_empty)

TypeDefault(currentValue) ==
    IF TypeOf(currentValue) = "number" THEN Num(0)
    ELSE IF TypeOf(currentValue) = "boolean" THEN Bool(FALSE)
    ELSE Str(S_empty)

RECURSIVE ResetLoop(_, _, _, _)
ResetLoop(i, p, resetValues, excludeKeys) ==
    IF i > Len(Keys) THEN p
    ELSE LET key == Keys[i] IN
         IF key \in excludeKeys THEN ResetLoop(i + 1, p, resetValues, excludeKeys)
         ELSE IF resetValues.given /\ key \in resetValues.keys
         THEN ResetLoop(i + 1, [p EXCEPT ![key] = resetValues.vals[key]],
                        resetValues, excludeKeys)
         ELSE ResetLoop(i + 1, [p EXCEPT ![key] = TypeDefault(p[key])],
                        resetValues, excludeKeys)

resetParams_definedOnly(p, resetValues, excludeKeys) ==
    ResetLoop(1, p,
              [resetValues EXCEPT
                  !.keys = {k \in resetValues.keys : resetValues.vals[k] # Undefined}],
              excludeKeys)

resetParams(p, resetValues, excludeKeys) == ResetLoop(1, p, resetValues, excludeKeys)

(***************************************************************************)
(* The source of the watcher: the values of the keys that are not          *)
(* excluded, in the order of the table.  A write that changes one of them  *)
(* triggers the watcher.                                                   *)
(***************************************************************************)
RECURSIVE WatchSourceFrom(_, _, _)
WatchSourceFrom(i, p, excludeKeys) ==
    IF i > Len(Keys) THEN <<>>
    ELSE IF Keys[i] \in excludeKeys THEN WatchSourceFrom(i + 1, p, excludeKeys)
    ELSE <<p[Keys[i]]>> \o WatchSourceFrom(i + 1, p, excludeKeys)

watchSource(p, excludeKeys) == WatchSourceFrom(1, p, excludeKeys)

Triggered_typeOnly(p, p2, excludeKeys) ==
    \E i \in 1..Len(watchSource(p, excludeKeys)) :
        TypeOf(watchSource(p, excludeKeys)[i]) # TypeOf(watchSource(p2, excludeKeys)[i])

Triggered(p, p2, excludeKeys) ==
    watchSource(p, excludeKeys) # watchSource(p2, excludeKeys)

(***************************************************************************)
(* Bounds and the inputs the environment draws from.                       *)
(***************************************************************************)
MaxOps == 2

MaxNum == 12

Numbers == {Num(i) : i \in (0 - MaxNum)..MaxNum}

WriteValues == {Num(3), NaN}

ExternalChanges ==
    {<<"page", QStr(<<"1", "2">>)>>}

ResetInputs ==
    {NoReset,
     ResetWith({"page"}, [k \in ParamKeys |-> IF k = "page" THEN Num(1) ELSE Undefined]),
     ResetWith({"page", "q"}, [k \in ParamKeys |-> IF k = "page" THEN Undefined ELSE Null])}

Table(page, q) == [k \in ParamKeys |-> IF k = "page" THEN page ELSE q]

EmptyQuery == [k \in QueryKeys |-> QAbsent]

Query(page, q, tab) == [k \in QueryKeys |-> IF k = "page" THEN page ELSE IF k = "q" THEN q ELSE tab]

(* The table the caller built and the query of the route at setup. *)
InitCases ==
    {<<Table(Num(1), Str(S_empty)), Query(QStr(<<"3">>), QAbsent, QStr(S_x))>>,
     <<Table(Num(1), Str(S_empty)), Query(QStr(S_maybe), QStr(S_NaN), QStr(S_x))>>,
     <<Table(Bool(FALSE), Num(5)), Query(QStr(S_true), QStr(<<"-", "4">>), QAbsent)>>,
     <<Table(Undefined, Bool(TRUE)), Query(QStr(S_empty), QStr(S_false), QStr(S_x))>>,
     <<Table(Bool(TRUE), Num(5)),
       Query(QArr(<<ElemStr(<<"7">>), ElemStr(S_abc)>>), QStr(S_NaN), QStr(S_x))>>,
     <<Table(Null, Num(0)), EmptyQuery>>}

Options ==
    [excludeKeys : {{}, {"q"}},
     immediate : BOOLEAN,
     initFromRoute : BOOLEAN,
     emptyValueHandle : {"remove", "keep"}]

NoNavigation == [set |-> FALSE, query |-> EmptyQuery]

Submitted(q) == [set |-> TRUE, query |-> q]

(***************************************************************************)
(* State.                                                                  *)
(*   params     the values of the reactive parameters                      *)
(*   query      route.query of the current route                           *)
(*   pending    the query handed to router.replace, until the router has   *)
(*              made it the current route                                  *)
(*   jobQueued  the watcher's job is in the queue of the scheduler         *)
(*   active     the watcher is registered and not stopped                  *)
(*   lifecycle  created, setup (useRouteQuery has run), mounted, unmounted *)
(*   options    the options of useRouteQuery                               *)
(*   last       the last operation, the table before it and its argument   *)
(*   changed    a tracked value has changed since the last commit          *)
(*   commits    number of runs of updateRouteQuery so far                  *)
(*   ops        number of calls the caller has made                        *)
(*   initial    the table and the query at the call of useRouteQuery       *)
(***************************************************************************)
VARIABLES params, query, pending, jobQueued, active, lifecycle, options,
          last, changed, commits, ops, initial

vars == <<params, query, pending, jobQueued, active, lifecycle, options,
          last, changed, commits, ops, initial>>

TrackedChange(p, p2) ==
    \E key \in ParamKeys \ options.excludeKeys : p[key] # p2[key]

Last(op, arg) == [op |-> op, pre |-> params, arg |-> arg]

Init ==
    /\ \E case \in InitCases : params = case[1] /\ query = case[2]
    /\ options \in Options
    /\ pending = NoNavigation
    /\ jobQueued = FALSE
    /\ active = FALSE
    /\ lifecycle = "created"
    /\ last = [op |-> "created", pre |-> params, arg |-> NoReset]
    /\ changed = FALSE
    /\ commits = 0
    /\ ops = 0
    /\ initial = [params |-> params, query |-> query]

Commit == updateRouteQuery(params, query, options.excludeKeys, options.emptyValueHandle)

UseRouteQuery_syncReplace ==
    /\ lifecycle = "created"
    /\ lifecycle' = "setup"
    /\ active' = TRUE
    /\ IF options.immediate
       THEN /\ query' = Commit
            /\ pending' = Submitted(Commit)
            /\ commits' = commits + 1
            /\ last' = Last("immediate", NoReset)
       ELSE /\ query' = query
            /\ pending' = pending
            /\ commits' = commits
            /\ last' = Last("register", NoReset)
    /\ UNCHANGED <<initial, params, jobQueued, options, changed, ops>>

UseRouteQuery_alwaysImmediate ==
    /\ lifecycle = "created"
    /\ lifecycle' = "setup"
    /\ active' = TRUE
    /\ pending' = Submitted(Commit)
    /\ commits' = commits + 1
    /\ last' = Last(IF options.immediate THEN "immediate" ELSE "register", NoReset)
    /\ UNCHANGED <<initial, params, query, jobQueued, options, changed, ops>>

(* useRouteQuery: registers the watcher; with immediate its callback runs  *)
(* at once.                                                                *)
UseRouteQuery ==
    /\ lifecycle = "created"
    /\ lifecycle' = "setup"
    /\ active' = TRUE
    /\ IF options.immediate
       THEN /\ pending' = Submitted(Commit)
            /\ commits' = commits + 1
            /\ last' = Last("immediate", NoReset)
       ELSE /\ pending' = pending
            /\ commits' = commits
            /\ last' = Last("register", NoReset)
    /\ UNCHANGED <<initial, params, query, jobQueued, options, changed, ops>>

(* onMounted: initParamsFromRoute when initFromRoute is set.               *)
Mounted ==
    /\ lifecycle = "setup"
    /\ lifecycle' = "mounted"
    /\ IF options.initFromRoute
       THEN /\ params' = initParamsFromRoute(params, query, options.excludeKeys)
            /\ last' = Last("mountedInit", NoReset)
       ELSE /\ params' = params
            /\ last' = Last("mounted", NoReset)
    /\ jobQueued' = (jobQueued \/ (active /\ Triggered(params, params', options.excludeKeys)))
    /\ changed' = (changed \/ TrackedChange(params, params'))
    /\ UNCHANGED <<initial, query, pending, active, options, commits, ops>>

(* onUnmounted: stopWatch.                                                 *)
Unmounted ==
    /\ lifecycle = "mounted"
    /\ lifecycle' = "unmounted"
    /\ active' = FALSE
    /\ last' = Last("unmounted", NoReset)
    /\ UNCHANGED <<initial, params, query, pending, jobQueued, options, changed, commits, ops>>

Callable == lifecycle \in {"setup", "mounted", "unmounted"} /\ ops < MaxOps

WriteParam_sync(key, value) ==
    /\ Callable
    /\ params' = [params EXCEPT ![key] = value]
    /\ jobQueued' = jobQueued
    /\ IF active /\ Triggered(params, params', options.excludeKeys)
       THEN /\ pending' = Submitted(updateRouteQuery(params', query, options.excludeKeys,
                                                     options.emptyValueHandle))
            /\ commits' = commits + 1
            /\ changed' = FALSE
       ELSE /\ pending' = pending
            /\ commits' = commits
            /\ changed' = (changed \/ TrackedChange(params, params'))
    /\ last' = Last("write", NoReset)
    /\ ops' = ops + 1
    /\ UNCHANGED <<initial, query, active, lifecycle, options>>

(* The caller writes params[key].value.                                    *)
WriteParam(key, value) ==
    /\ Callable
    /\ params' = [params EXCEPT ![key] = value]
    /\ jobQueued' = (jobQueued \/ (active /\ Triggered(params, params', options.excludeKeys)))
    /\ changed' = (changed \/ TrackedChange(params, params'))
    /\ last' = Last("write", NoReset)
    /\ ops' = ops + 1
    /\ UNCHANGED <<initial, query, pending, active, lifecycle, options, commits>>

(* The caller calls initParamsFromRoute().                                 *)
CallInitParamsFromRoute ==
    /\ Callable
    /\ params' = initParamsFromRoute(params, query, options.excludeKeys)
    /\ jobQueued' = (jobQueued \/ (active /\ Triggered(params, params', options.excludeKeys)))
    /\ changed' = (changed \/ TrackedChange(params, params'))
    /\ last' = Last("init", NoReset)
    /\ ops' = ops + 1
    /\ UNCHANGED <<initial, query, pending, active, lifecycle, options, commits>>

(* The caller calls updateRouteQuery().                                    *)
CallUpdateRouteQuery ==
    /\ Callable
    /\ pending' = Submitted(Commit)
    /\ changed' = FALSE
    /\ commits' = commits + 1
    /\ last' = Last("update", NoReset)
    /\ ops' = ops + 1
    /\ UNCHANGED <<initial, params, query, jobQueued, active, lifecycle, options>>

(* The caller calls resetParams(resetValues).                              *)
CallResetParams(resetValues) ==
    /\ Callable
    /\ params' = resetParams(params, resetValues, options.excludeKeys)
    /\ jobQueued' = (jobQueued \/ (active /\ Triggered(params, params', options.excludeKeys)))
    /\ changed' = (changed \/ TrackedChange(params, params'))
    /\ last' = Last("reset", resetValues)
    /\ ops' = ops + 1
    /\ UNCHANGED <<initial, query, pending, active, lifecycle, options, commits>>

(* The caller calls stopWatch().                                           *)
CallStopWatch ==
    /\ Callable
    /\ active' = FALSE
    /\ last' = Last("stop", NoReset)
    /\ ops' = ops + 1
    /\ UNCHANGED <<initial, params, query, pending, jobQueued, lifecycle, options, changed, commits>>

Flush_ignoresStop ==
    /\ jobQueued
    /\ lifecycle \in {"mounted", "unmounted"}
    /\ jobQueued' = FALSE
    /\ pending' = Submitted(Commit)
    /\ changed' = FALSE
    /\ commits' = commits + 1
    /\ last' = Last("flush", NoReset)
    /\ UNCHANGED <<initial, params, query, active, lifecycle, options, ops>>

Flush_sync ==
    /\ jobQueued
    /\ lifecycle \in {"setup", "mounted", "unmounted"}
    /\ jobQueued' = FALSE
    /\ IF active
       THEN /\ pending' = Submitted(Commit)
            /\ changed' = FALSE
            /\ commits' = commits + 1
            /\ last' = Last("flush", NoReset)
       ELSE /\ pending' = pending
            /\ changed' = changed
            /\ commits' = commits
            /\ last' = Last("skip", NoReset)
    /\ UNCHANGED <<initial, params, query, active, lifecycle, options, ops>>

(* The scheduler runs the watcher's job: the callback calls                *)
(* updateRouteQuery unless the watcher has been stopped.  The job does not *)
(* run between setup and mount, which are one synchronous step of the host.*)
Flush ==
    /\ jobQueued
    /\ lifecycle \in {"mounted", "unmounted"}
    /\ jobQueued' = FALSE
    /\ IF active
       THEN /\ pending' = Submitted(Commit)
            /\ changed' = FALSE
            /\ commits' = commits + 1
            /\ last' = Last("flush", NoReset)
       ELSE /\ pending' = pending
            /\ changed' = changed
            /\ commits' = commits
            /\ last' = Last("skip", NoReset)
    /\ UNCHANGED <<initial, params, query, active, lifecycle, options, ops>>

Navigate_reseeds ==
    /\ pending.set
    /\ lifecycle \in {"mounted", "unmounted"}
    /\ query' = pending.query
    /\ pending' = NoNavigation
    /\ params' = initParamsFromRoute(params, query', options.excludeKeys)
    /\ jobQueued' = (jobQueued \/ (active /\ Triggered(params, params', options.excludeKeys)))
    /\ changed' = (changed \/ TrackedChange(params, params'))
    /\ last' = Last("navigate", NoReset)
    /\ UNCHANGED <<initial, active, lifecycle, options, commits, ops>>

(* The router completes the navigation asked for by router.replace.        *)
Navigate ==
    /\ pending.set
    /\ lifecycle \in {"mounted", "unmounted"}
    /\ query' = pending.query
    /\ pending' = NoNavigation
    /\ last' = Last("navigate", NoReset)
    /\ UNCHANGED <<initial, params, jobQueued, active, lifecycle, options, changed, commits, ops>>

(* Other code of the application changes the query of the route.           *)
ExternalNavigate(key, routeValue) ==
    /\ lifecycle = "mounted"
    /\ ops < MaxOps
    /\ ~pending.set
    /\ query[key] # routeValue
    /\ query' = [query EXCEPT ![key] = routeValue]
    /\ last' = Last("external", NoReset)
    /\ ops' = ops + 1
    /\ UNCHANGED <<initial, params, pending, jobQueued, active, lifecycle, options, changed, commits>>

Next ==
    \/ UseRouteQuery
    \/ Mounted
    \/ Unmounted
    \/ \E key \in ParamKeys, value \in WriteValues : WriteParam(key, value)
    \/ CallInitParamsFromRoute
    \/ CallUpdateRouteQuery
    \/ \E resetValues \in ResetInputs : CallResetParams(resetValues)
    \/ CallStopWatch
    \/ Flush
    \/ Navigate
    \/ \E change \in ExternalChanges : ExternalNavigate(change[1], change[2])

Spec == Init /\ [][Next]_vars

(* The host mounts the component in the step in which it ran setup, and    *)
(* its scheduler runs every queued job.                                    *)
InitFair ==
    /\ Init
    /\ params = Table(Num(1), Str(S_empty))
    /\ query = Query(QStr(<<"3">>), QAbsent, QStr(S_x))

FairSpec == InitFair /\ [][Next]_vars /\ WF_vars(Mounted) /\ WF_vars(Flush)

(***************************************************************************)
(* Vocabulary of the properties.                                           *)
(***************************************************************************)
CommitOps == {"immediate", "flush", "update"}

SeedOps == {"mountedInit", "init"}

Tracked == ParamKeys \ options.excludeKeys

Excluded == ParamKeys \cap options.excludeKeys

(* The query the URL shows once the router has caught up. *)
EffectiveQuery == IF pending.set THEN pending.query ELSE query

(* The entry of key in q represents the current value of the parameter. *)
Represents(q, key) ==
    IF params[key] \in {Undefined, Null, Str(<<>>)}
    THEN IF options.emptyValueHandle = "remove"
         THEN q[key] = QAbsent
         ELSE q[key] = QStr(<<>>)
    ELSE q[key] = QStr(StringOf(params[key]))

(***************************************************************************)
(* C1: while the watcher is registered, a change of a non-excluded         *)
(* parameter (by a write, by resetParams or by initParamsFromRoute) is     *)
(* followed by a run of updateRouteQuery, and the query submitted at the   *)
(* flush represents the current value of every non-excluded key.           *)
(***************************************************************************)
C1_ChangeLeadsToCommit ==
    /\ (changed /\ active) ~> (~changed \/ ~active)
    /\ [](last.op = "flush" =>
            /\ pending.set
            /\ ~changed
            /\ \A key \in Tracked : Represents(pending.query, key))

C1_Witness ==
    /\ last.op = "flush"
    /\ active
    /\ ops > 0
    /\ ~changed
    /\ \E key \in Tracked : pending.query[key] # query[key]

(***************************************************************************)
(* C2 (as stated): in every state after a run of updateRouteQuery, the     *)
(* URL query represents the current value of every key that is not         *)
(* excluded.                                                               *)
(***************************************************************************)
C2_AlwaysConsistent ==
    commits > 0 => \A key \in Tracked : Represents(EffectiveQuery, key)

(***************************************************************************)
(* C2 (amended): the query that a run of updateRouteQuery submits          *)
(* represents, for every key that is not excluded, the value the parameter *)
(* has at that run.                                                        *)
(***************************************************************************)
C2_SubmittedConsistent ==
    last.op \in CommitOps =>
        /\ pending.set
        /\ \A key \in Tracked : Represents(pending.query, key)

C2_Witness ==
    /\ last.op = "flush"
    /\ \E key \in Tracked : params[key] = Null /\ query[key] # QAbsent
    /\ \E key \in Tracked : params[key] = Num(3) /\ pending.query[key] # query[key]

(***************************************************************************)
(* C3: updateRouteQuery submits the old query with only the keys of        *)
(* non-excluded parameters set or deleted; every key that is not a key of  *)
(* the table keeps the value it had.                                       *)
(***************************************************************************)
C3_OtherKeysSurvive ==
    last.op \in CommitOps =>
        /\ \A key \in QueryKeys \ ParamKeys : pending.query[key] = query[key]
        /\ \A key \in QueryKeys \ Tracked : pending.query[key] = query[key]

C3_Witness ==
    /\ last.op \in CommitOps
    /\ query["tab"] = QStr(S_x)
    /\ pending.query["tab"] = QStr(S_x)
    /\ \E key \in Tracked : pending.query[key] # query[key]

(***************************************************************************)
(* C4: a key in excludeKeys that is a key of the table is not written by   *)
(* initParamsFromRoute, and its query entry is not written by              *)
(* updateRouteQuery, whatever the query and the parameter hold.            *)
(***************************************************************************)
C4_ExcludedUntouched ==
    \A key \in Excluded :
        /\ last.op \in SeedOps => params[key] = last.pre[key]
        /\ last.op \in CommitOps => pending.query[key] = query[key]

(* Mounted right after the immediate commit: both operations have run on   *)
(* a query whose entry for the excluded key differs from the parameter.    *)
C4_Witness ==
    /\ last.op = "mountedInit"
    /\ pending.set
    /\ \E key \in Excluded :
           /\ query[key].kind = "string"
           /\ convertRouteValue(query[key], last.pre[key]) # last.pre[key]
           /\ query[key] # QStr(StringOf(last.pre[key]))
           /\ params[key] = last.pre[key]
           /\ pending.query[key] = query[key]

(***************************************************************************)
(* C5: with emptyValueHandle = remove, the query submitted by              *)
(* updateRouteQuery has no entry for a non-excluded key whose value is "", *)
(* undefined or null, whether or not the key was in the query before.      *)
(***************************************************************************)
C5_EmptyRemoved ==
    (last.op \in CommitOps /\ options.emptyValueHandle = "remove") =>
        \A key \in Tracked :
            params[key] \in {Str(<<>>), Undefined, Null} => pending.query[key] = QAbsent

C5_Witness ==
    /\ last.op \in CommitOps
    /\ options.emptyValueHandle = "remove"
    /\ \E key \in Tracked :
           /\ params[key] = Undefined
           /\ query[key] # QAbsent
           /\ pending.query[key] = QAbsent

(***************************************************************************)
(* C6: with emptyValueHandle = keep, the query submitted by                *)
(* updateRouteQuery maps a non-excluded key whose value is "", undefined   *)
(* or null to the empty string, whatever the key held before.              *)
(***************************************************************************)
C6_EmptyKept ==
    (last.op \in CommitOps /\ options.emptyValueHandle = "keep") =>
        \A key \in Tracked :
            params[key] \in {Str(<<>>), Undefined, Null} => pending.query[key] = QStr(<<>>)

C6_Witness ==
    /\ last.op \in CommitOps
    /\ options.emptyValueHandle = "keep"
    /\ \E key \in Tracked :
           /\ params[key] = Null
           /\ query[key] \notin {QAbsent, QStr(<<>>)}
           /\ pending.query[key] = QStr(<<>>)

(***************************************************************************)
(* C7 (as stated): for every number n, NaN included, initParamsFromRoute   *)
(* sets a non-excluded number parameter to n when the query holds          *)
(* String(n), and updateRouteQuery then submits that same string.          *)
(***************************************************************************)
C7_RoundTripEveryNumber ==
    last.op \in SeedOps =>
        \A key \in Tracked : \A n \in Numbers \cup {NaN} :
            (TypeOf(last.pre[key]) = "number" /\ query[key] = QStr(StringOf(n))) =>
                /\ params[key] = n
                /\ Commit[key] = query[key]

(***************************************************************************)
(* C7 (amended): for every number n other than NaN, initParamsFromRoute    *)
(* sets a non-excluded number parameter to n when the query holds          *)
(* String(n), and updateRouteQuery then submits that same string.          *)
(***************************************************************************)
C7_RoundTrip ==
    last.op \in SeedOps =>
        \A key \in Tracked : \A n \in Numbers :
            (TypeOf(last.pre[key]) = "number" /\ query[key] = QStr(StringOf(n))) =>
                /\ params[key] = n
                /\ Commit[key] = query[key]

C7_Witness ==
    /\ last.op \in SeedOps
    /\ \E key \in Tracked :
           /\ last.pre[key] = Num(5)
           /\ query[key] = QStr(<<"-", "4">>)
           /\ params[key] = Num(0 - 4)
           /\ Commit[key] = QStr(<<"-", "4">>)

(***************************************************************************)
(* C8: initParamsFromRoute sets a non-excluded boolean parameter to true   *)
(* when the query string of its key is exactly "true" and to false for     *)
(* every other string, whatever the boolean was before.                    *)
(***************************************************************************)
C8_BooleanSeed ==
    last.op \in SeedOps =>
        \A key \in Tracked :
            (TypeOf(last.pre[key]) = "boolean" /\ query[key].kind = "string") =>
                /\ TypeOf(params[key]) = "boolean"
                /\ params[key].b <=> (query[key].s = <<"t", "r", "u", "e">>)

C8_Witness ==
    /\ last.op \in SeedOps
    /\ \E key \in Tracked :
           /\ last.pre[key] = Bool(TRUE)
           /\ query[key] = QStr(S_false)
           /\ params[key] = Bool(FALSE)

(***************************************************************************)
(* C9: initParamsFromRoute leaves a non-excluded number parameter at its   *)
(* prior value when the query string of its key does not parse as a        *)
(* number, and every other parameter gets what its own entry gives it.     *)
(***************************************************************************)
C9_ParseFailureKeeps ==
    last.op \in SeedOps =>
        \A key \in Tracked :
            (/\ TypeOf(last.pre[key]) = "number"
             /\ query[key].kind = "string"
             /\ IsNaN(StringToNumber(query[key].s))) =>
                /\ params[key] = last.pre[key]
                /\ \A other \in ParamKeys \ {key} :
                       IF other \in Excluded \/ query[other].kind \in {"absent", "null"}
                       THEN params[other] = last.pre[other]
                       ELSE params[other] = convertRouteValue(query[other], last.pre[other])

C9_Witness ==
    /\ last.op \in SeedOps
    /\ last.pre["page"] = Num(1)
    /\ query["page"] = QStr(S_maybe)
    /\ params["page"] = Num(1)
    /\ "q" \in Tracked
    /\ params["q"] # last.pre["q"]

(***************************************************************************)
(* C10: resetParams(resetValues) assigns to every non-excluded parameter   *)
(* the supplied value when its key is in resetValues (undefined and null   *)
(* included), and otherwise 0 for a number, false for a boolean and "" for *)
(* anything else; excluded parameters keep their value.                    *)
(***************************************************************************)
C10_Reset ==
    last.op = "reset" =>
        \A key \in ParamKeys :
            IF key \in options.excludeKeys THEN params[key] = last.pre[key]
            ELSE IF last.arg.given /\ key \in last.arg.keys
            THEN params[key] = last.arg.vals[key]
            ELSE IF last.pre[key].t = "number" THEN params[key] = Num(0)
            ELSE IF last.pre[key].t = "boolean" THEN params[key] = Bool(FALSE)
            ELSE params[key] = Str(<<>>)

C10_Witness ==
    /\ last.op = "reset"
    /\ last.arg.given
    /\ last.arg.keys = {"page"}
    /\ params["page"] = Num(1)
    /\ "q" \in Tracked
    /\ last.pre["q"] = Bool(TRUE)
    /\ params["q"] = Bool(FALSE)

(***************************************************************************)
(* C11: once the watcher is stopped, by stopWatch or by the unmount, it    *)
(* stays stopped and no parameter change leads to a run of                 *)
(* updateRouteQuery (only a call of updateRouteQuery does); a further      *)
(* stopWatch changes nothing.                                              *)
(***************************************************************************)
C11_StoppedStaysStopped ==
    /\ [](last.op \in {"stop", "unmounted"} => ~active)
    /\ [][(~active /\ lifecycle # "created") =>
            /\ ~active'
            /\ commits' # commits => last'.op = "update"
            /\ last'.op = "stop" =>
                   UNCHANGED <<params, query, pending, jobQueued, active,
                               lifecycle, options, changed, commits>>]_vars

(* A write after the unmount changed a tracked value and queued nothing.   *)
C11_Witness ==
    /\ ~active
    /\ lifecycle = "unmounted"
    /\ last.op = "write"
    /\ \E key \in Tracked : params[key] # last.pre[key]
    /\ ~jobQueued
    /\ changed

(***************************************************************************)
(* C12: when other code changes the query of the route while the component *)
(* is mounted, the non-excluded parameters come to hold the converted      *)
(* values of the query.                                                    *)
(***************************************************************************)
FollowsQuery ==
    \A key \in Tracked :
        query[key].kind \in {"string", "array"} =>
            params[key] = convertRouteValue(query[key], params[key])

C12_TwoWay ==
    (last.op = "external" /\ ~FollowsQuery) ~> (last.op # "external" \/ FollowsQuery)

(***************************************************************************)
(* C13: with immediate = false the query is submitted only by a call of    *)
(* updateRouteQuery; a parameter change alone submits nothing.             *)
(***************************************************************************)
C13_ManualOnly ==
    ~options.immediate => (last.op \in CommitOps => last.op = "update")

C15_ImmediateCommit ==
    /\ [](last.op = "immediate" =>
            /\ options.immediate
            /\ commits = 1
            /\ ops = 0
            /\ params = initial.params
            /\ query = initial.query
            /\ pending.set
            /\ \A key \in Tracked : Represents(pending.query, key)
            /\ \A key \in QueryKeys \ Tracked : pending.query[key] = initial.query[key])
    /\ []((lifecycle # "created" /\ options.immediate) => commits >= 1)
    /\ [](last.op = "register" => (~options.immediate /\ commits = 0 /\ ~pending.set))
    /\ []((~options.immediate /\ commits = 0) => ~pending.set)
    /\ [][(~options.immediate /\ commits = 0 /\ commits' # 0) =>
              (last'.op = "update" \/ (last'.op = "flush" /\ changed))]_vars

C15_Witness ==
    /\ last.op = "immediate"
    /\ commits = 1
    /\ \E key \in Tracked : pending.query[key] # query[key]

(***************************************************************************)
(* C16: the parameter changes made before a flush lead to one run of       *)
(* updateRouteQuery at the flush: a change itself submits nothing, the     *)
(* flush runs updateRouteQuery once, leaves no job queued, and submits the *)
(* values the parameters hold at the flush.                                *)
(***************************************************************************)
C16_OneCommitPerFlush ==
    /\ [](last.op = "flush" =>
            /\ ~jobQueued
            /\ params = last.pre
            /\ pending.set
            /\ \A key \in Tracked : Represents(pending.query, key))
    /\ [][/\ last'.op \in {"write", "reset", "init", "mountedInit"} =>
                 (commits' = commits /\ pending' = pending)
          /\ last'.op = "flush" => (jobQueued /\ commits' = commits + 1)
          /\ commits' # commits => last'.op \in CommitOps]_vars

(* Two writes, then the first commit: it submits the values of both.       *)
C16_Witness ==
    /\ last.op = "flush"
    /\ commits = 1
    /\ ops = 2
    /\ Tracked = ParamKeys
    /\ params["page"] = NaN
    /\ params["q"] = Num(3)
    /\ initial.params["page"] # NaN
    /\ initial.params["q"] # Num(3)
    /\ pending.query["page"] = QStr(S_NaN)
    /\ pending.query["q"] = QStr(<<"3">>)

(***************************************************************************)
(* C17: a run of updateRouteQuery and the navigation it asks for change no *)
(* parameter and queue no job; the number of runs is bounded by the number *)
(* of calls of the caller, and in the end no job is queued.                *)
(***************************************************************************)
C17_NoLoop ==
    /\ [][last'.op \in (CommitOps \cup {"navigate"}) =>
              (params' = params /\ (jobQueued' => jobQueued) /\ (changed' => changed))]_vars
    /\ [](commits <= ops + 2)
    /\ <>[](~jobQueued)

C17_Witness ==
    /\ last.op = "navigate"
    /\ active
    /\ commits >= 2
    /\ ops > 0
    /\ ~jobQueued
    /\ ~pending.set
    /\ ~changed
    /\ \A key \in Tracked : Represents(query, key)

(***************************************************************************)
(* Activation is complete: registered, mounted and flushed, with no call   *)
(* of the caller and no other navigation in between.                       *)
(***************************************************************************)
ActivationDone ==
    /\ options.immediate
    /\ options.initFromRoute
    /\ lifecycle = "mounted"
    /\ ops = 0
    /\ ~jobQueued

(* The initial query has a value for key that converts under the type of   *)
(* the initial value of the parameter.                                     *)
Converts(key) ==
    /\ initial.query[key].kind \in {"string", "array"}
    /\ TypeOf(initial.params[key]) = "number" =>
           ~IsNaN(ToNumber(FirstOf(initial.query[key])))

(***************************************************************************)
(* C18 (as stated): after activation with the default options, a           *)
(* non-excluded parameter whose key has a convertible value in the initial *)
(* query holds the converted value, and the query still maps the key to    *)
(* the initial value.                                                      *)
(***************************************************************************)
C18_UrlValueKept ==
    ActivationDone =>
        \A key \in Tracked :
            Converts(key) =>
                /\ params[key] = convertRouteValue(initial.query[key], initial.params[key])
                /\ EffectiveQuery[key] = initial.query[key]

(***************************************************************************)
(* C18 (amended): after activation with the default options, a             *)
(* non-excluded parameter whose key has a convertible value in the initial *)
(* query holds the converted value, and the query maps the key to the      *)
(* representation of that converted value (the initial value itself when   *)
(* that was the canonical string of a non-empty value).                    *)
(***************************************************************************)
C18_SeedWins ==
    ActivationDone =>
        \A key \in Tracked :
            Converts(key) =>
                /\ params[key] = convertRouteValue(initial.query[key], initial.params[key])
                /\ Represents(EffectiveQuery, key)
                /\ (/\ initial.query[key].kind = "string"
                    /\ initial.query[key].s # <<>>
                    /\ initial.query[key].s = StringOf(params[key])) =>
                       EffectiveQuery[key] = initial.query[key]

(* The commit at registration had asked for "1"; the query keeps "3".     *)
C18_Witness ==
    /\ ActivationDone
    /\ last.op = "navigate"
    /\ commits = 2
    /\ initial.params["page"] = Num(1)
    /\ initial.query["page"] = QStr(<<"3">>)
    /\ params["page"] = Num(3)
    /\ query["page"] = QStr(<<"3">>)

(***************************************************************************)
(* C19: initParamsFromRoute, updateRouteQuery and resetParams() without    *)
(* an argument leave the type of a non-excluded parameter that holds a     *)
(* number or a boolean unchanged, whatever the query holds.                *)
(***************************************************************************)
C19_TypeStable ==
    (last.op \in (SeedOps \cup CommitOps) \/ (last.op = "reset" /\ ~last.arg.given)) =>
        \A key \in Tracked :
            TypeOf(last.pre[key]) \in {"number", "boolean"} =>
                TypeOf(params[key]) = TypeOf(last.pre[key])

(* A number parameter seeded from a multi-valued entry.                    *)
C19_Witness ==
    /\ last.op \in SeedOps
    /\ \E key \in Tracked :
           /\ last.pre[key] = Num(3)
           /\ query[key].kind = "array"
           /\ params[key] = Num(7)

====
